---- MODULE Spec2Model ----
(***************************************************************************)
(* Call session engine of the multi-tenant Twilio <-> Gemini relay server. *)
(*                                                                         *)
(* One phone call is modelled: its tenant rows in the database (source),   *)
(* the routing webhooks (/webhook/voice, /webhook/ivr-selection,           *)
(* /webhook/ivr-timeout), the two session stores (call_sessions table and  *)
(* the in-process callSessionStore map), and the relay's handling of the   *)
(* telephony WebSocket of that call (Tw2GemServer.setupEventHandlers).     *)
(*                                                                         *)
(* A text or id that JavaScript treats as falsy (null, undefined, '') is   *)
(* written Null.                                                           *)
(***************************************************************************)
EXTENDS Integers, Sequences, FiniteSets, TLC

Null == "null"

\* ------------------------------------------------------------------ bounds

\* Digit submissions (Twilio <Gather> callbacks) modelled per call.
MaxDigits == 4
\* Largest max_attempts value a modelled IVR menu carries.
MaxMenuAttempts == 3
\* Longest call, in whole seconds between connect and telephony close.
MaxCallSeconds == 61
\* Media frames / content frames modelled per direction.
MaxFrames == 2

\* Multiples of CACHE_TTL the clock runs to.
MaxClock == 2

\* ------------------------------------------------------- program constants

\* callSession.clientConfig.ivrMenu.max_attempts || 3
DefaultMaxAttempts == 3

\* The provider-assigned identifiers of the modelled call.
CallSid == "CA1"
StreamSid == "MZ1"

\* ------------------------------------------------------------ tenant rows

\* ai_agents rows of the tenant, by id. A3 exists but is not active.
TimeText(h, m) == [h |-> h, m |-> m]
UnsetTime == TimeText(-1, -1)

AgentRow(id) ==
    CASE id = "A1" -> [id |-> "A1", agent_type |-> "general",
                       voice_name |-> "Kore", language_code |-> "en-GB",
                       system_instruction |-> "prompt-A1",
                       business_days |-> {1, 2, 3, 4, 5},
                       business_hours_start |-> TimeText(9, 0),
                       business_hours_end |-> TimeText(17, 0)]
      [] id = "A2" -> [id |-> "A2", agent_type |-> "after_hours",
                       voice_name |-> Null, language_code |-> "es-ES",
                       system_instruction |-> Null,
                       business_days |-> {1, 2, 3, 4, 5},
                       business_hours_start |-> UnsetTime,
                       business_hours_end |-> UnsetTime]
      [] OTHER     -> [id |-> id, agent_type |-> "sales",
                       voice_name |-> "Charon", language_code |-> Null,
                       system_instruction |-> "prompt-A3",
                       business_days |-> {1, 2, 3, 4, 5},
                       business_hours_start |-> UnsetTime,
                       business_hours_end |-> UnsetTime]

\* ai_agents.created_at, as a rank: A1 was created first, A3 last.
CreatedAt(id) ==
    CASE id = "A1" -> 1 [] id = "A2" -> 2 [] OTHER -> 3

\* The row with the least created_at among the rows of a query result, or
\* Null for an empty result.
OldestAgent(agents) ==
    IF Len(agents) = 0 THEN Null
    ELSE agents[CHOOSE i \in 1..Len(agents) :
                    \A j \in 1..Len(agents) :
                        CreatedAt(agents[i]) <= CreatedAt(agents[j])]

\* The ids of the rows `ai_agents ... .eq('is_active', true)` can return, in
\* query order: the query has no ORDER BY, so the rows come in the order the
\* database happens to hold them, which need not be the order of creation.
AgentLists == { <<>>, <<"A1">>, <<"A2">>, <<"A1", "A2">>, <<"A2", "A1">> }

\* ivr_options rows.
Option(digit, action, agent, phone) ==
    [digit |-> digit, action_type |-> action, agent_id |-> agent,
     phone_number |-> phone]

NoOption == Option(Null, Null, Null, Null)

MenuOptions ==
    << Option("1", "agent", "A1", Null),
       Option("2", "agent", "A2", Null),
       Option("3", "transfer", Null, "+15550100"),
       Option("4", "voicemail", Null, Null),
       Option("5", "agent", "A3", Null) >>

\* Two rows with the same digit (ivr_options has no uniqueness constraint),
\* and a transfer row whose action_data is left at its default, NULL.
DuplicateOptions ==
    << Option("2", "agent", "A1", Null),
       Option("2", "agent", "A2", Null),
       Option("3", "transfer", Null, Null) >>

\* ivr_menus row; max_attempts 0 stands for an unset (falsy) column.
Menu(id, max, options) ==
    [id |-> id, max_attempts |-> max, ivr_options |-> options]

NoMenu == Menu(Null, 0, <<>>)

Menus ==
    { Menu("M1", max, MenuOptions) : max \in 0..MaxMenuAttempts }
        \cup { Menu("M2", DefaultMaxAttempts, DuplicateOptions) }

\* external_integrations rows. The extension table maps 101 to A1 and 103 to
\* the inactive A3.
Integration(kind, sip, agent) ==
    [integration_type |-> kind, sip_uri |-> sip, agent_id |-> agent]

ExtensionMap(ext) ==
    CASE ext = "101" -> "A1"
      [] ext = "103" -> "A3"
      [] OTHER -> Null

IntegrationLists ==
    { <<>>,
      <<Integration("sip", "sip:pbx@example.com", Null)>>,
      <<Integration("sip", Null, Null)>>,
      <<Integration("extension", Null, Null)>>,
      <<Integration("forwarding", Null, "A2")>>,
      <<Integration("forwarding", Null, "A3")>>,
      <<Integration("forwarding", Null, Null)>>,
      <<Integration("webhook", Null, Null)>>,
      <<Integration("forwarding", Null, "A2"),
        Integration("sip", "sip:pbx@example.com", Null)>> }

\* profiles.routing_strategy values; Null is an unset column.
Strategies ==
    {"single_number_ivr", "time_based", "external_integration", "direct",
     "unknown", Null}

\* The rows of the called number's tenant. found = FALSE: no phone_numbers row.
\* call_recording_enabled and transcription_enabled have the columns' default.
Source(found, strategy, bound, primary, agents, menu, integrations) ==
    [found |-> found, routing_strategy |-> strategy, agent_id |-> bound,
     is_primary |-> primary, agents |-> agents, menu |-> menu,
     integrations |-> integrations,
     call_recording_enabled |-> TRUE, transcription_enabled |-> TRUE]

\* The tenant with its two flags set.
Flagged(src, recording, transcription) ==
    [src EXCEPT !.call_recording_enabled = recording,
                !.transcription_enabled = transcription]

NoSource == Source(FALSE, Null, Null, FALSE, <<>>, NoMenu, <<>>)

DirectSources ==
    { Source(TRUE, s, b, TRUE, a, Menu("M1", DefaultMaxAttempts, MenuOptions),
             <<Integration("sip", "sip:pbx@example.com", Null)>>) :
        s \in Strategies, b \in {"A1", "A3"}, a \in {<<"A1", "A2">>, <<"A2">>} }

IvrSources ==
    { Source(TRUE, s, Null, p, a, m, <<>>) :
        s \in {"single_number_ivr", Null}, p \in BOOLEAN,
        a \in {<<>>, <<"A1", "A2">>, <<"A2", "A1">>}, m \in Menus \cup {NoMenu} }

TimeSources ==
    { Source(TRUE, "time_based", Null, TRUE, a, NoMenu, <<>>) : a \in AgentLists }

ExternalSources ==
    { Source(TRUE, "external_integration", Null, TRUE, a, NoMenu, i) :
        a \in {<<>>, <<"A1", "A2">>}, i \in IntegrationLists }

DefaultSources ==
    { Source(TRUE, s, Null, TRUE, a, NoMenu, <<>>) :
        s \in {"direct", "unknown"}, a \in AgentLists }

AllSources ==
    {NoSource} \cup DirectSources \cup IvrSources \cup TimeSources
        \cup ExternalSources \cup DefaultSources

\* -------------------------------------------------- configuration resolver

\* Fault variant of ClientConfig: the tenant's active menu is attached for any
\* of its numbers and under any strategy.
ClientConfigMenuAlways(src) ==
    [found |-> src.found,
     clientId |-> IF src.found THEN "P1" ELSE Null,
     routingStrategy |-> IF src.routing_strategy = Null
                           THEN "single_number_ivr"
                           ELSE src.routing_strategy,
     phoneNumber |-> [agent_id |-> src.agent_id,
                      is_primary |-> src.is_primary],
     agents |-> src.agents,
     ivrMenu |-> src.menu,
     externalIntegrations |-> src.integrations,
     recordingEnabled |-> TRUE,
     transcriptionEnabled |-> TRUE]

\* flag || true
OrTrue(flag) == IF flag THEN flag ELSE TRUE

\* getClientConfigByPhoneNumber, on a cache miss: the compiled configuration;
\* found = FALSE is the null it returns when the phone number has no row.
ClientConfig(src) ==
    [found |-> src.found,
     clientId |-> IF src.found THEN "P1" ELSE Null,
     routingStrategy |-> IF src.routing_strategy = Null
                           THEN "single_number_ivr"
                           ELSE src.routing_strategy,
     phoneNumber |-> [agent_id |-> src.agent_id,
                      is_primary |-> src.is_primary],
     agents |-> src.agents,
     ivrMenu |-> IF src.routing_strategy = "single_number_ivr"
                     /\ src.is_primary
                   THEN src.menu ELSE NoMenu,
     externalIntegrations |-> src.integrations,
     recordingEnabled |-> OrTrue(src.call_recording_enabled),
     transcriptionEnabled |-> OrTrue(src.transcription_enabled)]

\* agents.find(a => a.id === id): the agent with the id, or Null.
FindAgent(agents, id) ==
    IF \E i \in 1..Len(agents) : agents[i] = id THEN id ELSE Null

\* clientConfig.agents[0]
FirstAgent(agents) == IF Len(agents) > 0 THEN agents[1] ELSE Null

\* ------------------------------------------------------------ call session

\* ivrContext of a session: absent (null / no key), or {menuId, attempts}.
IvrContext(menuId, attempts) ==
    [present |-> TRUE, menuId |-> menuId, attempts |-> attempts]

NoIvrContext == [present |-> FALSE, menuId |-> Null, attempts |-> 0]

\* The sessionData / updatedSession objects the webhooks build.
Session(config, agent, ivr) ==
    [present |-> TRUE, clientConfig |-> config, selectedAgent |-> agent,
     ivrContext |-> ivr]

\* No session: what a failed lookup yields.
NoSession ==
    [present |-> FALSE, clientConfig |-> ClientConfig(NoSource),
     selectedAgent |-> Null, ivrContext |-> NoIvrContext]

\* storeCallSession: an INSERT into call_sessions, whose call_sid is UNIQUE.
\* The row is written only if the database answers and holds no row for the
\* call yet; otherwise the insert's error is logged and the table is unchanged.
StoreCallSession(row, session, dbUp) ==
    IF dbUp /\ ~row.present THEN session ELSE row

\* getCallSession: the row's session_data, or null on any error (database
\* unavailable, or .single() finding no row).
GetCallSession(row, dbUp) ==
    IF dbUp /\ row.present THEN row ELSE NoSession

\* The lookup every reader performs: database first, then the in-memory map.
LookupSession(row, mem, dbUp) ==
    LET fromDb == GetCallSession(row, dbUp) IN
      IF ~fromDb.present /\ mem.present THEN mem ELSE fromDb

\* ------------------------------------------------------- routing decisions

\* What a webhook answers. kind: the TwiML it sends ("agent": stream + say,
\* "ivrPrompt": gather, "transfer": dial, "voicemail": record, "reject": an
\* apology only, "threw": the handler raised and sent nothing).
\* stream: the TwiML starts a media stream to the relay. prefix: the gather
\* prompt starts with the invalid-selection sentence.
\* record: the TwiML carries the <Record> of the direct-number branch.
Decision(kind, agent, stream, prefix, to) ==
    [kind |-> kind, agent |-> agent, stream |-> stream, prefix |-> prefix,
     to |-> to, record |-> FALSE]

NoDecision == Decision("none", Null, FALSE, FALSE, Null)
Reject == Decision("reject", Null, FALSE, FALSE, Null)
Threw == Decision("threw", Null, FALSE, FALSE, Null)
ConnectAgent(agent) == Decision("agent", agent, TRUE, FALSE, Null)

\* A handler's outcome: its answer, and the session it writes to both stores
\* (write = FALSE: it writes none).
Outcome(decision, write, session) ==
    [decision |-> decision, write |-> write, session |-> session]

Answer(decision) == Outcome(decision, FALSE, NoSession)

\* The recurring "store the session with this agent, start the stream" tail;
\* a missing agent is the handler's apology branch.
RouteToAgent(config, agent) ==
    IF agent = Null THEN Answer(Reject)
    ELSE Outcome(ConnectAgent(agent), TRUE,
                 Session(config, agent, NoIvrContext))

\* handleIVRRouting
HandleIVRRouting(config) ==
    IF config.ivrMenu.id = Null
      THEN RouteToAgent(config, FirstAgent(config.agents))
      ELSE Outcome(Decision("ivrPrompt", Null, FALSE, FALSE, Null), TRUE,
                   Session(config, Null, IvrContext(config.ivrMenu.id, 0)))

\* Fault variant of HandleExternalIntegration: the last active integration
\* decides, not the first.
HandleExternalIntegrationLast(config, extension) ==
    IF Len(config.externalIntegrations) = 0
      THEN RouteToAgent(config, FirstAgent(config.agents))
      ELSE LET integration ==
                 config.externalIntegrations[Len(config.externalIntegrations)]
           IN
        CASE integration.integration_type = "sip" ->
               IF integration.sip_uri = Null THEN Answer(Reject)
               ELSE Answer(Decision("transfer", Null, FALSE, FALSE,
                                    integration.sip_uri))
          [] integration.integration_type = "forwarding" ->
               IF integration.agent_id = Null THEN Answer(Reject)
               ELSE RouteToAgent(config,
                        FindAgent(config.agents, integration.agent_id))
          [] OTHER -> Answer(Reject)

\* Fault variant of HandleExternalIntegration: an extension integration that
\* cannot map the supplied extension falls back to the first agent.
HandleExternalIntegrationFallback(config, extension) ==
    IF Len(config.externalIntegrations) = 0
      THEN RouteToAgent(config, FirstAgent(config.agents))
      ELSE LET integration == config.externalIntegrations[1] IN
        CASE integration.integration_type = "sip" ->
               IF integration.sip_uri = Null THEN Answer(Reject)
               ELSE Answer(Decision("transfer", Null, FALSE, FALSE,
                                    integration.sip_uri))
          [] integration.integration_type = "extension" ->
               IF extension = Null \/ ExtensionMap(extension) = Null
                 THEN RouteToAgent(config, FirstAgent(config.agents))
                 ELSE RouteToAgent(config,
                          FindAgent(config.agents, ExtensionMap(extension)))
          [] integration.integration_type = "forwarding" ->
               IF integration.agent_id = Null THEN Answer(Reject)
               ELSE RouteToAgent(config,
                        FindAgent(config.agents, integration.agent_id))
          [] OTHER -> Answer(Reject)

\* handleExternalIntegration; extension is req.body.Digits || req.query.extension.
HandleExternalIntegration(config, extension) ==
    IF Len(config.externalIntegrations) = 0
      THEN RouteToAgent(config, FirstAgent(config.agents))
      ELSE LET integration == config.externalIntegrations[1] IN
        CASE integration.integration_type = "sip" ->
               IF integration.sip_uri = Null THEN Answer(Reject)
               ELSE Answer(Decision("transfer", Null, FALSE, FALSE,
                                    integration.sip_uri))
          [] integration.integration_type = "extension" ->
               IF extension = Null THEN Answer(Reject)
               ELSE IF ExtensionMap(extension) = Null THEN Answer(Reject)
               ELSE RouteToAgent(config,
                        FindAgent(config.agents, ExtensionMap(extension)))
          [] integration.integration_type = "forwarding" ->
               IF integration.agent_id = Null THEN Answer(Reject)
               ELSE RouteToAgent(config,
                        FindAgent(config.agents, integration.agent_id))
          [] OTHER -> Answer(Reject)

\* handleTimeBasedRouting ------------------------------------------------

\* The weekday option the handler passes to Intl.DateTimeFormat.
WeekdayOption == "numeric"

LongWeekday(day) ==
    CASE day = 0 -> "Sunday" [] day = 1 -> "Monday" [] day = 2 -> "Tuesday"
      [] day = 3 -> "Wednesday" [] day = 4 -> "Thursday"
      [] day = 5 -> "Friday" [] OTHER -> "Saturday"

ShortWeekday(day) ==
    CASE day = 0 -> "Sun" [] day = 1 -> "Mon" [] day = 2 -> "Tue"
      [] day = 3 -> "Wed" [] day = 4 -> "Thu" [] day = 5 -> "Fri"
      [] OTHER -> "Sat"

NarrowWeekday(day) ==
    CASE day \in {0, 6} -> "S" [] day = 1 -> "M" [] day \in {2, 4} -> "T"
      [] day = 3 -> "W" [] OTHER -> "F"

\* new Intl.DateTimeFormat('en-US', {timeZone, weekday: option}).format(now):
\* ECMA-402 accepts only "narrow", "short" and "long" for weekday and throws a
\* RangeError for any other value.
FormatWeekday(option, day) ==
    CASE option = "long" -> LongWeekday(day)
      [] option = "short" -> ShortWeekday(day)
      [] option = "narrow" -> NarrowWeekday(day)
      [] OTHER -> "RangeError"

\* dayMap[clientDay]; -1 is the undefined of a name that is no key.
DayMap(clientDay) ==
    CASE clientDay = "Sunday" -> 0 [] clientDay = "Monday" -> 1
      [] clientDay = "Tuesday" -> 2 [] clientDay = "Wednesday" -> 3
      [] clientDay = "Thursday" -> 4 [] clientDay = "Friday" -> 5
      [] clientDay = "Saturday" -> 6 [] OTHER -> -1

\* The hour12:false "HH:MM" text of a local minute-of-day.
FormatHourMinute(minute) == TimeText(minute \div 60, minute % 60)

\* const [h, m] = text.split(':').map(Number); h * 60 + m
MinutesOf(text) == text.h * 60 + text.m

\* The first agent of type 'general'; else agents[0]; else Null.
BusinessHoursAgent(agents) ==
    LET general == {i \in 1..Len(agents) :
                        AgentRow(agents[i]).agent_type = "general"} IN
      IF general # {}
        THEN agents[CHOOSE i \in general : \A j \in general : i <= j]
        ELSE FirstAgent(agents)

\* The last agent of type 'after_hours'; else the business-hours agent.
AfterHoursAgent(agents) ==
    LET after == {i \in 1..Len(agents) :
                      AgentRow(agents[i]).agent_type = "after_hours"} IN
      IF after # {}
        THEN agents[CHOOSE i \in after : \A j \in after : j <= i]
        ELSE BusinessHoursAgent(agents)

\* isBusinessHours, for the business-hours agent (possibly Null), the mapped
\* day of week and the formatted local time.
IsBusinessHours(agent, dayOfWeek, clientTime) ==
    LET businessDays == IF agent = Null THEN {1, 2, 3, 4, 5}
                        ELSE AgentRow(agent).business_days
        startText == IF agent = Null
                        \/ AgentRow(agent).business_hours_start = UnsetTime
                       THEN TimeText(9, 0)
                       ELSE AgentRow(agent).business_hours_start
        endText == IF agent = Null
                      \/ AgentRow(agent).business_hours_end = UnsetTime
                     THEN TimeText(17, 0)
                     ELSE AgentRow(agent).business_hours_end
    IN /\ dayOfWeek \in businessDays
       /\ MinutesOf(clientTime) >= MinutesOf(startText)
       /\ MinutesOf(clientTime) <= MinutesOf(endText)

\* handleTimeBasedRouting at local weekday `day`, minute-of-day `minute`.
HandleTimeBasedRouting(config, day, minute) ==
    LET clientTime == FormatHourMinute(minute)
        clientDay == FormatWeekday(WeekdayOption, day)
        businessHoursAgent == BusinessHoursAgent(config.agents)
        afterHoursAgent == AfterHoursAgent(config.agents)
    IN IF clientDay = "RangeError" THEN Answer(Threw)
       ELSE RouteToAgent(config,
                IF IsBusinessHours(businessHoursAgent, DayMap(clientDay),
                                   clientTime)
                  THEN businessHoursAgent ELSE afterHoursAgent)

\* app.post('/webhook/voice') -------------------------------------------

\* Fault variant of VoiceBranch: the routing strategy is dispatched on before
\* the called number's agent binding is looked at.
VoiceBranchStrategyFirst(config) ==
    CASE ~config.found -> "unconfigured"
      [] config.found /\ config.routingStrategy = "single_number_ivr" -> "ivr"
      [] config.found /\ config.routingStrategy = "external_integration"
           -> "external_integration"
      [] config.found /\ config.routingStrategy = "time_based" -> "time_based"
      [] OTHER -> IF config.phoneNumber.agent_id # Null THEN "direct_number"
                  ELSE "default"

\* Which branch of the voice webhook handles a configuration.
VoiceBranch(config) ==
    CASE ~config.found -> "unconfigured"
      [] config.found /\ config.phoneNumber.agent_id # Null -> "direct_number"
      [] OTHER -> CASE config.routingStrategy = "single_number_ivr" -> "ivr"
                    [] config.routingStrategy = "external_integration"
                         -> "external_integration"
                    [] config.routingStrategy = "time_based" -> "time_based"
                    [] OTHER -> "default"

\* Fault variant of RouteVoice: a number without configuration is served by
\* the assistant's defaults, with a session that selects no agent (and a
\* configured number by its first agent).
RouteVoiceUnconfiguredServed(config, extension, day, minute) ==
    IF ~config.found
      THEN Outcome(Decision("agent", Null, TRUE, FALSE, Null), TRUE,
                   Session(config, Null, NoIvrContext))
      ELSE RouteToAgent(config, FirstAgent(config.agents))

\* if (clientConfig.recordingEnabled) twiml.record({...}), in the branch that
\* connects a number to its own agent.
RecordIfEnabled(config, out) ==
    IF out.decision.kind = "agent"
      THEN [out EXCEPT !.decision.record = config.recordingEnabled]
      ELSE out

RouteVoice(config, extension, day, minute) ==
    LET branch == VoiceBranch(config) IN
      CASE branch = "unconfigured" -> Answer(Reject)
        [] branch = "direct_number" ->
             RecordIfEnabled(config,
                 RouteToAgent(config,
                     FindAgent(config.agents, config.phoneNumber.agent_id)))
        [] branch = "ivr" -> HandleIVRRouting(config)
        [] branch = "external_integration" ->
             HandleExternalIntegration(config, extension)
        [] branch = "time_based" -> HandleTimeBasedRouting(config, day, minute)
        [] OTHER -> RouteToAgent(config, FirstAgent(config.agents))

\* app.post('/webhook/ivr-selection') -----------------------------------

\* Fault variant of FindOption: the last option with the digit, not the first.
FindOptionLast(options, digits) ==
    LET hits == {i \in 1..Len(options) : options[i].digit = digits} IN
      IF hits = {} THEN NoOption
      ELSE options[CHOOSE i \in hits : \A j \in hits : j <= i]

\* ivr_options.find(option => option.digit === digits): the first option
\* whose digit is the submitted string, or NoOption.
FindOption(options, digits) ==
    LET hits == {i \in 1..Len(options) : options[i].digit = digits} IN
      IF hits = {} THEN NoOption
      ELSE options[CHOOSE i \in hits : \A j \in hits : i <= j]

\* callSession.clientConfig.ivrMenu.max_attempts || 3
EffectiveMaxAttempts(menu) ==
    IF menu.max_attempts = 0 THEN DefaultMaxAttempts ELSE menu.max_attempts

\* Fault variant of InvalidSelection: the retry prompt is issued without
\* counting the attempt.
InvalidSelectionUncounted(callSession) ==
    LET ivrContext == callSession.ivrContext
        attempts == ivrContext.attempts
        defaultAgent == FirstAgent(callSession.clientConfig.agents)
    IN IF attempts + 1
            >= EffectiveMaxAttempts(callSession.clientConfig.ivrMenu)
         THEN IF defaultAgent = Null THEN Answer(Reject)
              ELSE Outcome(ConnectAgent(defaultAgent), TRUE,
                     [callSession EXCEPT !.selectedAgent = defaultAgent,
                                         !.ivrContext = NoIvrContext])
         ELSE Outcome(Decision("ivrPrompt", Null, FALSE, TRUE, Null), TRUE,
                [callSession EXCEPT
                    !.ivrContext = IvrContext(ivrContext.menuId, attempts)])

\* The no-match branch: count the attempt, fall back or prompt again.
InvalidSelection(callSession) ==
    LET ivrContext == callSession.ivrContext
        attempts == ivrContext.attempts + 1
        defaultAgent == FirstAgent(callSession.clientConfig.agents)
    IN IF attempts >= EffectiveMaxAttempts(callSession.clientConfig.ivrMenu)
         THEN IF defaultAgent = Null THEN Answer(Reject)
              ELSE Outcome(ConnectAgent(defaultAgent), TRUE,
                     [callSession EXCEPT !.selectedAgent = defaultAgent,
                                         !.ivrContext = NoIvrContext])
         ELSE Outcome(Decision("ivrPrompt", Null, FALSE, TRUE, Null), TRUE,
                [callSession EXCEPT
                    !.ivrContext = IvrContext(ivrContext.menuId, attempts)])

\* Fault variant of ProcessOption: a transfer or a voicemail also clears the
\* IVR progress of the stored session.
ProcessOptionClearsProgress(callSession, selectedOption) ==
    CASE selectedOption.action_type = "agent" ->
           LET selectedAgent == FindAgent(callSession.clientConfig.agents,
                                          selectedOption.agent_id) IN
             IF selectedAgent = Null THEN Answer(Reject)
             ELSE Outcome(ConnectAgent(selectedAgent), TRUE,
                    [callSession EXCEPT !.selectedAgent = selectedAgent,
                                        !.ivrContext = NoIvrContext])
      [] selectedOption.action_type = "transfer" ->
           IF selectedOption.phone_number = Null THEN Answer(Reject)
           ELSE Outcome(Decision("transfer", Null, FALSE, FALSE,
                                 selectedOption.phone_number), TRUE,
                        [callSession EXCEPT !.ivrContext = NoIvrContext])
      [] selectedOption.action_type = "voicemail" ->
           Outcome(Decision("voicemail", Null, FALSE, FALSE, Null), TRUE,
                   [callSession EXCEPT !.ivrContext = NoIvrContext])
      [] OTHER -> Answer(Reject)

\* The branch for a matched option, by its action_type.
ProcessOption(callSession, selectedOption) ==
    CASE selectedOption.action_type = "agent" ->
           LET selectedAgent == FindAgent(callSession.clientConfig.agents,
                                          selectedOption.agent_id) IN
             IF selectedAgent = Null THEN Answer(Reject)
             ELSE Outcome(ConnectAgent(selectedAgent), TRUE,
                    [callSession EXCEPT !.selectedAgent = selectedAgent,
                                        !.ivrContext = NoIvrContext])
      [] selectedOption.action_type = "transfer" ->
           IF selectedOption.phone_number = Null THEN Answer(Reject)
           ELSE Answer(Decision("transfer", Null, FALSE, FALSE,
                                selectedOption.phone_number))
      [] selectedOption.action_type = "voicemail" ->
           Answer(Decision("voicemail", Null, FALSE, FALSE, Null))
      [] OTHER -> Answer(Reject)

\* The handler, given the session its lookup returned. Reading ivr_options of
\* a session whose configuration has no menu raises a TypeError.
SelectDigits(callSession, digits) ==
    IF ~callSession.present THEN Answer(Reject)
    ELSE IF callSession.clientConfig.ivrMenu.id = Null THEN Answer(Threw)
    ELSE LET selectedOption ==
               FindOption(callSession.clientConfig.ivrMenu.ivr_options, digits)
         IN IF selectedOption = NoOption THEN InvalidSelection(callSession)
            ELSE ProcessOption(callSession, selectedOption)

\* Fault variant of TimeoutSelection: the agent is selected and the IVR
\* progress is left in the session.
TimeoutSelectionKeepsContext(callSession) ==
    IF ~callSession.present THEN Answer(Reject)
    ELSE LET defaultAgent == FirstAgent(callSession.clientConfig.agents) IN
      IF defaultAgent = Null THEN Answer(Reject)
      ELSE Outcome(ConnectAgent(defaultAgent), TRUE,
             [callSession EXCEPT !.selectedAgent = defaultAgent])

\* app.get('/webhook/ivr-timeout'), given the session its lookup returned.
TimeoutSelection(callSession) ==
    IF ~callSession.present THEN Answer(Reject)
    ELSE LET defaultAgent == FirstAgent(callSession.clientConfig.agents) IN
      IF defaultAgent = Null THEN Answer(Reject)
      ELSE Outcome(ConnectAgent(defaultAgent), TRUE,
             [callSession EXCEPT !.selectedAgent = defaultAgent,
                                 !.ivrContext = NoIvrContext])

\* ------------------------------------------------------------ relay state

\* The setup a GeminiLiveClient is constructed with.
GeminiSetup(systemInstruction, voiceName, languageCode) ==
    [systemInstruction |-> systemInstruction, voiceName |-> voiceName,
     languageCode |-> languageCode]

\* this.geminiOptions, the server-wide setup (environment defaults).
DefaultGeminiSetup == GeminiSetup("default-prompt", "Puck", "en-US")

\* geminiClientOptions for a session's selected agent: each field is the
\* agent's, or the default when the agent's is empty.
AgentGeminiSetup(agent) ==
    GeminiSetup(
        IF AgentRow(agent).system_instruction = Null
          THEN DefaultGeminiSetup.systemInstruction
          ELSE AgentRow(agent).system_instruction,
        IF AgentRow(agent).voice_name = Null
          THEN "Puck" ELSE AgentRow(agent).voice_name,
        IF AgentRow(agent).language_code = Null
          THEN "en-US" ELSE AgentRow(agent).language_code)

\* if (callSession && callSession.selectedAgent)
HasSelectedAgent(callSession) ==
    callSession.present /\ callSession.selectedAgent # Null

\* Math.round((endTime - startTime) / 1000), for a non-negative difference.
DurationSeconds(elapsedMs) == (elapsedMs + 500) \div 1000

\* Fault variant of MinutesUsed: rounds to the nearest minute instead of up.
MinutesUsedRounded(durationSeconds) == (durationSeconds + 30) \div 60

\* Math.ceil(durationSeconds / 60)
MinutesUsed(durationSeconds) == (durationSeconds + 59) \div 60

\* The elapsed times between connect and close that are modelled: no time,
\* the minute boundary and the bound, each with the offsets around
\* Math.round's half-second boundary.
CallSeconds == {0, 60, MaxCallSeconds}
ElapsedMs == { s * 1000 + o : s \in CallSeconds, o \in {0, 499, 500} }

\* modelTurn.parts of the server-content frames that are modelled. "badAudio"
\* is an audio part whose inlineData the converter rejects.
PartLists ==
    { <<"audio">>, <<"text">>, <<"text", "audio", "audio">>,
      <<"badAudio", "audio">> }

\* A relay that sends one media frame per content frame that has audio.
AudioPartsCoalesced(parts) ==
    IF \E i \in DOMAIN parts : parts[i] = "audio" THEN 1 ELSE 0

AudioParts(parts) == Cardinality({i \in 1..Len(parts) : parts[i] = "audio"})
TextParts(parts) == Cardinality({i \in 1..Len(parts) : parts[i] = "text"})

\* The index of the first part whose conversion raises, Len(parts) + 1 if
\* none does.
FailsAt(parts) ==
    LET bad == {i \in 1..Len(parts) : parts[i] = "badAudio"} IN
      IF bad = {} THEN Len(parts) + 1
      ELSE CHOOSE i \in bad : \A j \in bad : i <= j

\* The media frames handleGeminiResponse sends for one content frame: its
\* loop over the parts is inside one try block, so the part whose conversion
\* raises ends the loop.
SentParts(parts) == AudioParts(SubSeq(parts, 1, FailsAt(parts) - 1))

VARIABLES
    source,      \* the tenant rows of the called number
    dbSession,   \* the call's row of call_sessions (session_data), or NoSession
    memSession,  \* the call's entry of callSessionStore, or NoSession
    decision,    \* the answer of the last routing webhook
    route,       \* what the routing webhooks did so far (history)
    sock,        \* the telephony WebSocket and the fields the relay sets on it
    pc,          \* position of the async 'connection' handler
    closePc,     \* position of the async socket 'close' handler
    gem,         \* the call's GeminiLiveClient
    twilio,      \* what the telephony side has sent on the socket
    sink,        \* calls made to the call record sink, and their effect
    relayed,     \* audio forwarded in each direction, transcript lines
    cache,       \* the clock, clientConfigCache's entry for the called
                 \* number, and what the last resolve did (history)
    order,       \* the frames each direction forwarded, in the order they
                 \* were forwarded (history)
    retention    \* whether the retention window of the call's session has
                 \* passed, and whether the cleanup trigger ran since

vars == <<source, dbSession, memSession, decision, route, sock, pc, closePc,
          gem, twilio, sink, relayed, cache, order, retention>>

routingVars == <<dbSession, memSession, decision, route>>
relayVars == <<sock, pc, closePc, gem, twilio, sink, relayed>>

NoRoute ==
    [branch |-> "none", day |-> -1, minute |-> -1, digits |-> 0,
     invalidRun |-> 0, lastOp |-> "none", extension |-> Null,
     processUp |-> TRUE,
     lastDigits |-> Null, read |-> NoSession, wrote |-> FALSE,
     written |-> NoSession, snapshot |-> ClientConfig(NoSource)]

\* What the relay did with the last server-content frame: whether
\* onServerContent was assigned when it arrived (handled), whether the
\* telephony socket was open, its parts, the media frames sent for it and the
\* transcript lines appended for it.
ContentFrame(handled, open, parts, sent, appended) ==
    [handled |-> handled, open |-> open, parts |-> parts, sent |-> sent,
     appended |-> appended]

NoFrame == ContentFrame(FALSE, FALSE, <<>>, 0, 0)

InitRelay ==
    /\ sock = [state |-> "none", callSid |-> Null, agentInfo |-> Null,
               clientInfo |-> Null, geminiLive |-> FALSE,
               twilioStreamSid |-> Null, callLogId |-> Null]
    /\ pc = "idle"
    /\ closePc = "idle"
    /\ gem = [state |-> "none", setup |-> DefaultGeminiSetup,
              greeting |-> "none"]
    /\ twilio = [started |-> FALSE, stopped |-> FALSE, media |-> 0]
    /\ sink = [createCalls |-> 0, updateCalls |-> 0, incrementCalls |-> 0,
               durationSeconds |-> -1, minutes |-> -1, billed |-> 0,
               status |-> "none", cause |-> "none"]
    /\ relayed = [toGemini |-> 0, toTwilio |-> 0, tags |-> {},
                  content |-> 0, transcript |-> 0, late |-> FALSE,
                  frame |-> NoFrame]
    /\ order = [toGemini |-> <<>>, toTwilio |-> <<>>]

InitRouting ==
    /\ dbSession = NoSession
    /\ memSession = NoSession
    /\ decision = NoDecision
    /\ route = NoRoute
    /\ retention = [expired |-> FALSE, cleaned |-> FALSE]

\* -------------------------------------------------------- routing actions

\* Inputs of the webhooks that are modelled.
Extensions == {Null, "101", "103", "999"}
ClockDays == 0..6
ClockMinutes == {0, 539, 540, 600, 1020, 1021}
Digits == {"1", "2", "3", "4", "5", "9"}

\* A webhook tail that stores the session with the tenant's configuration
\* resolved anew.
ApplyOutcomeResolved(out, dbUp) ==
    LET session == IF out.session.present
                     THEN [out.session EXCEPT
                             !.clientConfig = ClientConfig(source)]
                     ELSE out.session
    IN /\ decision' = out.decision
       /\ dbSession' = IF out.write
                         THEN StoreCallSession(dbSession, session, dbUp)
                         ELSE dbSession
       /\ memSession' = IF out.write THEN session ELSE memSession

\* The tail of every webhook: await storeCallSession(callSid, session), then
\* callSessionStore.set(callSid, session), then res.send(twiml).
ApplyOutcome(out, dbUp) ==
    /\ decision' = out.decision
    /\ dbSession' = IF out.write
                      THEN StoreCallSession(dbSession, out.session, dbUp)
                      ELSE dbSession
    /\ memSession' = IF out.write THEN out.session ELSE memSession

\* Whether the process is up after a webhook handler's outcome. No handler
\* catches what its routing code raises (the strategy handlers are called
\* without await, the Express handlers are async functions) and the source
\* installs no 'unhandledRejection' listener, so an error that escapes is an
\* unhandled promise rejection: the Node the deployment installs (18) exits
\* on it by default, while a launcher that installs a listener of its own
\* only reports it (exits: which of the two the deployment does).
ProcessUpAfter(up, out, exits) ==
    up /\ ~(out.decision = Threw /\ exits)

\* POST /webhook/voice: the provider announces the call.
VoiceWebhook ==
    /\ decision.kind = "none"
    /\ \E extension \in Extensions, day \in ClockDays,
          minute \in ClockMinutes, dbUp \in BOOLEAN, exits \in BOOLEAN :
         LET config == ClientConfig(source)
             branch == VoiceBranch(config)
             out == RouteVoice(config, extension, day, minute)
         IN /\ ApplyOutcome(out, dbUp)
            /\ route' = [route EXCEPT
                 !.branch = branch,
                 !.day = IF branch = "time_based" THEN day ELSE -1,
                 !.minute = IF branch = "time_based" THEN minute ELSE -1,
                 !.lastOp = "voice",
                 !.extension = IF branch = "external_integration"
                                 THEN extension ELSE Null,
                 !.wrote = out.write,
                 !.written = out.session,
                 !.snapshot = config,
                 !.processUp = ProcessUpAfter(@, out, exits)]
    /\ UNCHANGED <<source, cache, order, retention, relayVars>>

\* POST /webhook/ivr-selection: the provider reports the digits gathered. It
\* is the action URL of the <Gather> of an IVR prompt, so it follows one.
IvrSelection ==
    /\ decision.kind = "ivrPrompt"
    /\ route.digits < MaxDigits
    /\ \E digits \in Digits, readUp \in BOOLEAN, writeUp \in BOOLEAN,
          exits \in BOOLEAN :
         LET callSession == LookupSession(dbSession, memSession, readUp)
             out == SelectDigits(callSession, digits)
             menuRead ==
                 /\ callSession.present
                 /\ callSession.clientConfig.ivrMenu.id # Null
             noMatch ==
                 FindOption(callSession.clientConfig.ivrMenu.ivr_options,
                            digits) = NoOption
         IN /\ ApplyOutcome(out, writeUp)
            /\ route' = [route EXCEPT
                 !.digits = @ + 1,
                 !.invalidRun = IF menuRead /\ noMatch THEN @ + 1 ELSE 0,
                 !.lastOp = "digit",
                 !.lastDigits = digits,
                 !.read = callSession,
                 !.wrote = out.write,
                 !.written = out.session,
                 !.processUp = ProcessUpAfter(@, out, exits)]
    /\ UNCHANGED <<source, cache, order, retention, relayVars>>

\* /webhook/ivr-timeout: the <Redirect> after a <Gather> that got no input.
IvrTimeout ==
    /\ decision.kind = "ivrPrompt"
    /\ \E readUp \in BOOLEAN, writeUp \in BOOLEAN, exits \in BOOLEAN :
         LET callSession == LookupSession(dbSession, memSession, readUp)
             out == TimeoutSelection(callSession)
         IN /\ ApplyOutcome(out, writeUp)
            /\ route' = [route EXCEPT
                 !.invalidRun = 0,
                 !.lastOp = "timeout",
                 !.lastDigits = Null,
                 !.read = callSession,
                 !.wrote = out.write,
                 !.written = out.session,
                 !.processUp = ProcessUpAfter(@, out, exits)]
    /\ UNCHANGED <<source, cache, order, retention, relayVars>>

\* ---------------------------------------------- relay: connection handler

\* The handler from `let geminiClientOptions` to the await of createCallLog:
\* it builds the client's setup from the session, constructs the client
\* (which starts connecting), sets the socket's fields and, with a tenant and
\* an agent attached, calls createCallLog. Without them nothing is awaited and
\* the socket's listeners are registered at once.
Configure(socket, callSession) ==
    LET attached == HasSelectedAgent(callSession)
        agent == callSession.selectedAgent
    IN /\ gem' = [state |-> "connecting",
                  setup |-> IF attached THEN AgentGeminiSetup(agent)
                            ELSE DefaultGeminiSetup,
                  greeting |-> "none"]
       /\ sock' = [socket EXCEPT
            !.agentInfo = IF attached THEN agent ELSE Null,
            !.clientInfo = IF attached THEN callSession.clientConfig.clientId
                           ELSE Null,
            !.geminiLive = TRUE,
            !.twilioStreamSid = socket.callSid]
       /\ pc' = IF attached THEN "createCallLog" ELSE "registered"
       /\ sink' = IF attached THEN [sink EXCEPT !.createCalls = @ + 1]
                  ELSE sink

\* 'connection': the provider opens the media stream the TwiML started. The
\* stream URL carries ?callSid=; sid = Null is a connection without it. With
\* a call SID the handler awaits getCallSession before anything else; without
\* one it runs on to Configure with no session.
Connect ==
    /\ decision.stream
    /\ sock.state = "none"
    /\ \E sid \in {CallSid, Null} :
         LET opened == [sock EXCEPT !.state = "open", !.callSid = sid] IN
           IF sid = Null
             THEN Configure(opened, NoSession)
             ELSE /\ sock' = opened
                  /\ pc' = "getCallSession"
                  /\ UNCHANGED <<gem, sink>>
    /\ UNCHANGED <<source, cache, order, retention, routingVars, closePc, twilio, relayed>>

\* getCallSession resolves: the in-memory fallback is consulted if it found
\* nothing, then Configure.
LookupDone ==
    /\ pc = "getCallSession"
    /\ \E dbUp \in BOOLEAN :
         Configure(sock, LookupSession(dbSession, memSession, dbUp))
    /\ UNCHANGED <<source, cache, order, retention, routingVars, closePc, twilio, relayed>>

\* createCallLog resolves: the record's id is kept if one was created, and
\* the socket's 'message', 'close' and 'error' listeners are registered.
CreateCallLogDone ==
    /\ pc = "createCallLog"
    /\ \E created \in BOOLEAN :
         /\ sock' = [sock EXCEPT !.callLogId = IF created THEN "L1" ELSE Null]
         /\ sink' = [sink EXCEPT
                       !.status = IF created THEN "in_progress" ELSE @]
    /\ pc' = "registered"
    /\ UNCHANGED <<source, cache, order, retention, routingVars, closePc, gem, twilio, relayed>>

\* ------------------------------------------------ relay: telephony events

\* A listener runs only if it is registered when the event is emitted: an
\* event the socket emits while the 'connection' handler is still awaiting
\* is dropped.
\* A relay whose listeners run only for a call that has a call record.
ListeningWithRecord == pc = "registered" /\ sock.callLogId # Null

Listening == pc = "registered"

\* The call has ended: the telephony side sent 'stop', or either connection
\* is closed.
Ended ==
    twilio.stopped \/ sock.state = "closed" \/ gem.state = "closed"

\* socket.geminiLive.close()
CloseGemini == [gem EXCEPT !.state = IF @ = "none" THEN @ ELSE "closed"]

\* 'message' with event 'start': the provider assigns the stream identifier.
TwilioStart ==
    /\ sock.state = "open"
    /\ ~twilio.started
    /\ twilio' = [twilio EXCEPT !.started = TRUE]
    /\ sock' = IF Listening THEN [sock EXCEPT !.twilioStreamSid = StreamSid]
               ELSE sock
    /\ UNCHANGED <<source, cache, order, retention, routingVars, pc, closePc, gem, sink, relayed>>

\* A relay that puts the frame it forwards ahead of those forwarded before.
ForwardNewestFirst(sent, frame) == <<frame>> \o sent

\* sendRealtimeInput and socket.send are called inside the handler of the
\* event that carries the frame, which runs to completion before the next
\* event is dispatched.
Forward(sent, frame) == Append(sent, frame)

\* 'message' with event 'media': one inbound mu-law frame. A frame the
\* converter rejects raises inside the try block and is dropped; otherwise
\* the converted frame is handed to sendRealtimeInput.
HandleTwilioMedia(wellFormed) ==
    /\ sock.state = "open"
    /\ twilio.media < MaxFrames
    /\ twilio' = [twilio EXCEPT !.media = @ + 1]
    /\ relayed' = IF Listening /\ sock.geminiLive /\ wellFormed
                    THEN [relayed EXCEPT
                            !.toGemini = @ + 1,
                            !.late = @ \/ (Ended /\ gem.state # "closed")]
                    ELSE relayed
    /\ UNCHANGED <<source, cache, retention, routingVars, sock, pc, closePc, gem,
                   sink>>

TwilioMedia ==
    /\ \E wellFormed \in BOOLEAN : HandleTwilioMedia(wellFormed)
    /\ UNCHANGED order

\* The same handler, with the frames handed to sendRealtimeInput recorded by
\* their arrival number.
TwilioMediaOrdered ==
    \E wellFormed \in BOOLEAN :
      /\ HandleTwilioMedia(wellFormed)
      /\ order' = [order EXCEPT
            !.toGemini = IF Listening /\ sock.geminiLive /\ wellFormed
                           THEN Forward(@, twilio.media + 1) ELSE @]

\* 'message' with event 'stop': the speech-side client is closed.
TwilioStop ==
    /\ sock.state = "open"
    /\ ~twilio.stopped
    /\ twilio' = [twilio EXCEPT !.stopped = TRUE]
    /\ gem' = IF Listening /\ sock.geminiLive THEN CloseGemini ELSE gem
    /\ UNCHANGED <<source, cache, order, retention, routingVars, sock, pc, closePc, sink, relayed>>

\* updates.status: the 'close' listener writes the one literal.
FinalStatus == "completed"

\* What ended the call whose record the 'close' listener finalizes (history,
\* kept until updateCallLog resolves): a socket error (the 'error' listener has
\* logged it and the socket then emits 'close'), a speech-side client that
\* closed although the relay never closed it (the relay closes it only on a
\* handled 'stop' and at the end of the 'close' listener), or else the
\* telephony side.
CloseCause(errored) ==
    IF errored THEN "error"
    ELSE IF gem.state = "closed" /\ ~twilio.stopped THEN "speechDrop"
    ELSE "hangup"

\* 'close': the telephony socket closes, after a hang-up or after a socket
\* error. With a call record the handler computes the duration and awaits
\* updateCallLog; without one it closes the speech-side client at once.
TwilioClose ==
    /\ sock.state = "open"
    /\ sock' = [sock EXCEPT !.state = "closed"]
    /\ \E elapsedMs \in ElapsedMs, errored \in BOOLEAN :
         CASE Listening /\ sock.callLogId # Null ->
                /\ sink' = [sink EXCEPT
                     !.updateCalls = @ + 1,
                     !.durationSeconds = DurationSeconds(elapsedMs),
                     !.status = FinalStatus,
                     !.cause = CloseCause(errored)]
                /\ closePc' = "updateCallLog"
                /\ gem' = gem
           [] Listening /\ sock.callLogId = Null ->
                /\ sink' = sink
                /\ closePc' = "done"
                /\ gem' = IF sock.geminiLive THEN CloseGemini ELSE gem
           [] OTHER ->
                UNCHANGED <<sink, closePc, gem>>
    /\ UNCHANGED <<source, cache, order, retention, routingVars, pc, twilio, relayed>>

\* updateCallLog resolves (it reports a failure as null, never by raising);
\* with a tenant attached the handler then awaits incrementMinutesUsed.
UpdateCallLogDone ==
    /\ closePc = "updateCallLog"
    /\ IF sock.clientInfo # Null
         THEN /\ sink' = [sink EXCEPT
                   !.incrementCalls = @ + 1,
                   !.minutes = MinutesUsed(sink.durationSeconds),
                   !.cause = "none"]
              /\ closePc' = "incrementMinutesUsed"
              /\ gem' = gem
         ELSE /\ sink' = [sink EXCEPT !.cause = "none"]
              /\ closePc' = "done"
              /\ gem' = IF sock.geminiLive THEN CloseGemini ELSE gem
    /\ UNCHANGED <<source, cache, order, retention, routingVars, sock, pc, twilio, relayed>>

\* incrementMinutesUsed resolves: the increment_minutes_used function adds
\* p_minutes to the tenant's counter unless the sink failed; then the
\* speech-side client is closed.
IncrementMinutesDone ==
    /\ closePc = "incrementMinutesUsed"
    /\ \E ok \in BOOLEAN :
         sink' = [sink EXCEPT
            !.billed = IF ok THEN @ + sink.minutes ELSE @,
            !.durationSeconds = -1,
            !.minutes = -1]
    /\ closePc' = "done"
    /\ gem' = IF sock.geminiLive THEN CloseGemini ELSE gem
    /\ UNCHANGED <<source, cache, order, retention, routingVars, sock, pc, twilio, relayed>>

\* ---------------------------------------------- relay: speech-side events

\* Whether the call's geminiClient.onReady invokes server.geminiLive.onReady,
\* the callback that arms the greeting timer: its body is one console.log.
OnReadyArmsGreeting == FALSE

\* The client reaches ready: geminiClient.onReady only logs, so the greeting
\* timer of server.geminiLive.onReady is armed by nothing.
GeminiReady ==
    /\ gem.state = "connecting"
    /\ gem' = [gem EXCEPT !.state = "open",
                          !.greeting = IF OnReadyArmsGreeting
                                         THEN "armed" ELSE @]
    /\ UNCHANGED <<source, cache, order, retention, routingVars, sock, pc, closePc, twilio, sink,
                   relayed>>

\* The speech endpoint drops or errors: geminiClient.onError and
\* geminiClient.onClose only log.
GeminiClosed ==
    /\ gem.state \in {"connecting", "open"}
    /\ gem' = [gem EXCEPT !.state = "closed"]
    /\ UNCHANGED <<source, cache, order, retention, routingVars, sock, pc, closePc, twilio, sink,
                   relayed>>

\* A server-content frame arrives from the speech endpoint. onServerContent
\* is assigned after the awaits of the 'connection' handler, so a frame that
\* arrives earlier reaches no handler. handleGeminiResponse sends one media
\* frame per audio part, tagged socket.twilioStreamSid, until a conversion
\* raises (on a socket that is not open socket.send transmits nothing: it
\* fails or raises inside the try block); each text part is then appended to
\* socket.transcript.
HandleGeminiContent(parts) ==
    /\ gem.state = "open"
    /\ relayed.content < MaxFrames
    /\ LET sends == Listening /\ sock.state = "open"
           sent == IF sends THEN SentParts(parts) ELSE 0
       IN
         relayed' = [relayed EXCEPT
            !.content = @ + 1,
            !.toTwilio = @ + sent,
            !.tags = IF sent > 0 THEN @ \cup {sock.twilioStreamSid} ELSE @,
            !.transcript = IF Listening THEN @ + TextParts(parts) ELSE @,
            !.late = @ \/ (sent > 0 /\ Ended),
            !.frame = ContentFrame(Listening, sock.state = "open", parts,
                          sent,
                          IF Listening THEN TextParts(parts) ELSE 0)]
    /\ UNCHANGED <<source, cache, retention, routingVars, sock, pc, closePc, gem,
                   twilio, sink>>

GeminiContent ==
    /\ \E parts \in PartLists : HandleGeminiContent(parts)
    /\ UNCHANGED order

\* The indices of the parts handleGeminiResponse sends a media frame for, in
\* the order of its loop over modelTurn.parts.
SentIndices(parts) ==
    SelectSeq([i \in 1..Len(parts) |-> i],
              LAMBDA i : parts[i] = "audio" /\ i < FailsAt(parts))

\* socket.send for each part of SentIndices in turn
RECURSIVE ForwardParts(_, _, _)
ForwardParts(sent, frame, indices) ==
    IF indices = <<>> THEN sent
    ELSE ForwardParts(Forward(sent, <<frame, Head(indices)>>), frame,
                      Tail(indices))

\* The same handler, with the media frames sent to the telephony side
\* recorded as <<content frame number, part index>>.
GeminiContentOrdered ==
    \E parts \in PartLists :
      /\ HandleGeminiContent(parts)
      /\ order' = [order EXCEPT
            !.toTwilio = IF Listening /\ sock.state = "open"
                           THEN ForwardParts(@, relayed.content + 1,
                                             SentIndices(parts))
                           ELSE @]

\* ------------------------------------------------------- specifications

\* --------------------------------------------- the configuration cache

\* const CACHE_TTL = 5 * 60 * 1000, in milliseconds
CACHE_TTL == 5 * 60 * 1000

\* The instants Date.now() is read at: each multiple of CACHE_TTL up to
\* MaxClock of them, the millisecond before it and the millisecond after it.
ClockTimes ==
    { t \in { k * CACHE_TTL + o : k \in 0..MaxClock, o \in {-1, 0, 1} } :
        t >= 0 }

\* A value of clientConfigCache for the called number: { data, expiresAt }.
CacheEntry(data, expiresAt) ==
    [present |-> TRUE, data |-> data, expiresAt |-> expiresAt]

\* clientConfigCache.has(phoneNumber) is false
NoEntry == [present |-> FALSE, data |-> ClientConfig(NoSource), expiresAt |-> 0]

\* What the last call of getClientConfigByPhoneNumber did: the instant of the
\* call, the entry it found, whether it returned from the cache ("hit"), is
\* awaiting the database ("querying") or has returned what the database gave
\* ("fetched"), the value returned, the queries it sent and the instant it
\* returned at.
Resolved(kind, at, found, result, queries, returnedAt) ==
    [kind |-> kind, at |-> at, found |-> found, result |-> result,
     queries |-> queries, returnedAt |-> returnedAt]

NoResolve == Resolved("none", 0, NoEntry, ClientConfig(NoSource), 0, 0)

\* An entry that is still served at the instant of its expiry.
FreshAtExpiry(entry, now) == entry.expiresAt >= now

\* cachedConfig.expiresAt > Date.now()
Fresh(entry, now) == entry.expiresAt > now

InitCache ==
    cache = [now |-> 0, entry |-> NoEntry, last |-> NoResolve]

\* The tenants whose rows change while the cache holds a snapshot.
CacheSources ==
    { Source(TRUE, "direct", "A1", TRUE, <<"A1", "A2">>, NoMenu, <<>>),
      Source(TRUE, "direct", "A2", TRUE, <<"A2">>, NoMenu, <<>>),
      NoSource }

\* getClientConfigByPhoneNumber up to its first await: an entry that is
\* fresh is returned as it is; an entry that is not is deleted, and the
\* database is queried.
Resolve ==
    /\ cache.last.kind # "querying"
    /\ LET entry == cache.entry
           hit == entry.present /\ Fresh(entry, cache.now)
       IN cache' = [cache EXCEPT
            !.entry = IF hit THEN entry ELSE NoEntry,
            !.last = IF hit
                       THEN Resolved("hit", cache.now, entry, entry.data, 0,
                                     cache.now)
                       ELSE Resolved("querying", cache.now, entry,
                                     ClientConfig(NoSource), 1, 0)]
    /\ UNCHANGED <<source, order, retention, routingVars, relayVars>>

\* A resolver that caches whatever the queries gave, null included.
ResolveDoneCachesNull ==
    /\ cache.last.kind = "querying"
    /\ \E answered \in BOOLEAN :
         LET config == IF answered THEN ClientConfig(source)
                       ELSE ClientConfig(NoSource)
         IN cache' = [cache EXCEPT
              !.entry = CacheEntry(config, cache.now + CACHE_TTL),
              !.last = [cache.last EXCEPT !.kind = "fetched",
                                          !.result = config,
                                          !.returnedAt = cache.now]]
    /\ UNCHANGED <<source, order, retention, routingVars, relayVars>>

\* The queries return: a number with no row, or a query that fails or
\* raises, gives null and caches nothing; otherwise the configuration
\* assembled from the rows is cached with expiresAt = Date.now() + CACHE_TTL
\* and returned.
ResolveDone ==
    /\ cache.last.kind = "querying"
    /\ \E answered \in BOOLEAN :
         LET config == IF answered THEN ClientConfig(source)
                       ELSE ClientConfig(NoSource)
         IN cache' = [cache EXCEPT
              !.entry = IF config.found
                          THEN CacheEntry(config, cache.now + CACHE_TTL)
                          ELSE cache.entry,
              !.last = [cache.last EXCEPT !.kind = "fetched",
                                          !.result = config,
                                          !.returnedAt = cache.now]]
    /\ UNCHANGED <<source, order, retention, routingVars, relayVars>>

\* Time passes.
Tick ==
    /\ \E t \in ClockTimes :
         /\ t > cache.now
         /\ cache' = [cache EXCEPT !.now = t]
    /\ UNCHANGED <<source, order, retention, routingVars, relayVars>>

\* The tenant's rows are changed or removed in the database.
ChangeSource ==
    /\ source' \in CacheSources \ {source}
    /\ UNCHANGED <<cache, order, retention, routingVars, relayVars>>

InitResolver == source \in CacheSources /\ InitRouting /\ InitRelay /\ InitCache

NextCache == Resolve \/ ResolveDone \/ Tick \/ ChangeSource

SpecCache == InitResolver /\ [][NextCache]_vars

\* ------------------------------------------------------ specifications

\* The tenants the whole-call specification draws from: a number bound to an
\* active agent, and a number with no row.
CallSources ==
    { Source(TRUE, "direct", "A1", TRUE, <<"A1", "A2">>, NoMenu, <<>>),
      NoSource }

Init == source \in CallSources /\ InitRouting /\ InitRelay /\ InitCache

Next ==
    \/ VoiceWebhook
    \/ Connect \/ LookupDone \/ CreateCallLogDone
    \/ TwilioStart \/ TwilioMedia \/ TwilioStop \/ TwilioClose
    \/ UpdateCallLogDone \/ IncrementMinutesDone
    \/ GeminiReady \/ GeminiClosed \/ GeminiContent

Spec == Init /\ [][Next]_vars

\* Routing in depth: every modelled tenant, the webhooks, and the relay's
\* connection handler up to the configured speech-side client.
InitRoute == source \in AllSources /\ InitRouting /\ InitRelay /\ InitCache

NextRoute ==
    \/ VoiceWebhook \/ IvrSelection \/ IvrTimeout
    \/ Connect \/ LookupDone \/ CreateCallLogDone

SpecRoute == InitRoute /\ [][NextRoute]_vars

\* expires_at, NOW() + INTERVAL '24 hours' at the insert, is passed: a day
\* after the call's session was stored.
SessionExpires ==
    /\ memSession.present
    /\ ~retention.expired
    /\ retention' = [retention EXCEPT !.expired = TRUE]
    /\ UNCHANGED <<source, cache, order, routingVars, relayVars>>

\* trigger_cleanup_expired_call_sessions: an INSERT of another call's row
\* into call_sessions deletes the rows whose expires_at is passed. Nothing
\* deletes from callSessionStore.
CleanupExpiredCallSessions ==
    /\ retention.expired
    /\ ~retention.cleaned
    /\ retention' = [retention EXCEPT !.cleaned = TRUE]
    /\ dbSession' = NoSession
    /\ UNCHANGED <<source, cache, order, memSession, decision, route, relayVars>>

\* The session store over a day: the webhooks that write the session, the
\* expiry of its row and the cleanup trigger.
NextStore ==
    \/ VoiceWebhook \/ IvrSelection \/ IvrTimeout
    \/ SessionExpires \/ CleanupExpiredCallSessions

SpecStore == InitRoute /\ [][NextStore]_vars

\* Tenants with each setting of the recording and transcription flags.
RecordingSources ==
    { Flagged(src, recording, transcription) :
        src \in DirectSources \cup DefaultSources,
        recording \in BOOLEAN, transcription \in BOOLEAN }

InitRecording ==
    source \in RecordingSources /\ InitRouting /\ InitRelay /\ InitCache

NextRecording ==
    \/ VoiceWebhook
    \/ Connect \/ LookupDone \/ CreateCallLogDone

SpecRecording == InitRecording /\ [][NextRecording]_vars

\* Calls in progress while the tenant's rows change: two IVR tenants that
\* differ in menu and agents, and the rows removed.
SnapshotSources ==
    { Source(TRUE, "single_number_ivr", Null, TRUE, <<"A1", "A2">>,
             Menu("M1", DefaultMaxAttempts, MenuOptions), <<>>),
      Source(TRUE, "single_number_ivr", Null, TRUE, <<"A2">>,
             Menu("M2", DefaultMaxAttempts, DuplicateOptions), <<>>),
      NoSource }

\* The tenant's rows are changed or removed while the caller of a routed call
\* is at the IVR prompt.
ChangeConfiguration ==
    /\ decision.kind = "ivrPrompt"
    /\ source' \in SnapshotSources \ {source}
    /\ UNCHANGED <<cache, order, retention, routingVars, relayVars>>

InitSnapshot ==
    source \in SnapshotSources /\ InitRouting /\ InitRelay /\ InitCache

NextSnapshot ==
    \/ VoiceWebhook \/ IvrSelection \/ IvrTimeout
    \/ Connect \/ LookupDone \/ CreateCallLogDone
    \/ ChangeConfiguration

SpecSnapshot == InitSnapshot /\ [][NextSnapshot]_vars

\* The relay's two audio paths with the forwarding order recorded: the set-up
\* of one call, then the frames of both directions.
NextOrder ==
    \/ VoiceWebhook
    \/ Connect \/ LookupDone \/ CreateCallLogDone
    \/ TwilioStart \/ TwilioMediaOrdered
    \/ GeminiReady \/ GeminiContentOrdered

SpecOrder == Init /\ [][NextOrder]_vars

\* ------------------------------------------------------------ properties

\* C1: every call that reached the relay with a call record created has had
\* updateCallLog invoked exactly once when it is over (the telephony socket
\* is closed and no handler of the call is still running), whichever side
\* closed first.
C1_FinalizeExactlyOnce ==
    (/\ sock.state = "closed"
     /\ sock.callLogId # Null
     /\ pc = "registered"
     /\ closePc \in {"idle", "done"})
        => sink.updateCalls = 1

\* C2 (as stated): whatever the routing strategy, a called number that
\* carries an agent binding is answered by connecting that agent, and the
\* stored session selects it.
C2_BindingAlwaysConnects ==
    (route.lastOp = "voice" /\ source.found /\ source.agent_id # Null)
        => /\ decision = [ConnectAgent(source.agent_id)
                             EXCEPT !.record = decision.record]
           /\ memSession.selectedAgent = source.agent_id

\* C2 (amended): whatever the routing strategy, a called number that carries
\* an agent binding is handled by the direct branch alone: if the bound agent
\* is one of the tenant's active agents the call connects to it and the
\* stored session selects it with no IVR context; otherwise the call is
\* rejected and no session is stored. No IVR prompt, transfer or strategy
\* branch is taken in either case.
C2_DirectBindingWins ==
    (route.lastOp = "voice" /\ source.found /\ source.agent_id # Null)
        => /\ route.branch = "direct_number"
           /\ decision.kind \in {"agent", "reject"}
           /\ IF \E i \in 1..Len(source.agents) :
                    source.agents[i] = source.agent_id
                THEN /\ decision.kind = "agent"
                     /\ decision.agent = source.agent_id
                     /\ decision.stream
                     /\ memSession.present
                     /\ memSession.selectedAgent = source.agent_id
                     /\ ~memSession.ivrContext.present
                     /\ route.written = memSession
                ELSE /\ decision = Reject
                     /\ ~route.wrote
                     /\ ~memSession.present

\* C2 witness: an IVR tenant's number bound to the active agent A1 has been
\* answered by connecting A1.
C2_Witness ==
    /\ route.lastOp = "voice"
    /\ source.agent_id = "A1"
    /\ source.routing_strategy = "single_number_ivr"
    /\ decision = [ConnectAgent("A1") EXCEPT !.record = decision.record]
    /\ memSession.selectedAgent = "A1"

\* C3: in a menu with max_attempts = 3, a run of digit submissions that match
\* no option is answered with a prompt on the first and second submission and
\* with the connection to the tenant's first agent on the third; there is no
\* fourth.
C3_FallbackOnThirdInvalid ==
    LET menu == route.read.clientConfig.ivrMenu
        noMatch == \A i \in 1..Len(menu.ivr_options) :
                       menu.ivr_options[i].digit # route.lastDigits
    IN (/\ route.lastOp = "digit"
        /\ route.read.present
        /\ menu.id # Null
        /\ menu.max_attempts = 3
        /\ noMatch
        /\ Len(source.agents) > 0)
           => /\ route.invalidRun \in 1..3
              /\ route.invalidRun < 3 => decision.kind = "ivrPrompt"
              /\ route.invalidRun = 3
                    => decision = ConnectAgent(source.agents[1])

\* C4: a digit submission that matches no option, when the attempts read from
\* the session plus one is below the menu's maximum, is answered with the
\* prompt carrying the invalid-selection prefix, starts no stream, selects no
\* agent, and writes a session whose ivrContext has the same menuId and
\* attempts one more than the value read.
C4_InvalidDigitRetry ==
    LET menu == route.read.clientConfig.ivrMenu
        noMatch == \A i \in 1..Len(menu.ivr_options) :
                       menu.ivr_options[i].digit # route.lastDigits
        max == IF menu.max_attempts = 0 THEN 3 ELSE menu.max_attempts
    IN (/\ route.lastOp = "digit"
        /\ route.read.present
        /\ menu.id # Null
        /\ noMatch
        /\ route.read.ivrContext.attempts + 1 < max)
           => /\ decision.kind = "ivrPrompt"
              /\ decision.prefix
              /\ ~decision.stream
              /\ decision.agent = Null
              /\ route.wrote
              /\ route.written.selectedAgent = Null
              /\ route.written.ivrContext.present
              /\ route.written.ivrContext.menuId
                    = route.read.ivrContext.menuId
              /\ route.written.ivrContext.attempts
                    = route.read.ivrContext.attempts + 1
              /\ memSession = route.written

\* C4 witness: "9" was submitted against a session read with attempts 0 in a
\* menu of max_attempts 3, and the session written has attempts 1.
C4_Witness ==
    /\ route.lastOp = "digit"
    /\ route.lastDigits = "9"
    /\ route.read.clientConfig.ivrMenu.max_attempts = 3
    /\ route.read.ivrContext.attempts = 0
    /\ route.written.ivrContext.attempts = 1
    /\ decision.kind = "ivrPrompt"

\* C5 (as stated): digits equal to the digit of an option with action agent
\* bound to A2 connect A2, and the session written selects A2 with ivrContext
\* cleared.
C5_AnyMatchingOptionConnects ==
    LET options == route.read.clientConfig.ivrMenu.ivr_options
    IN (route.lastOp = "digit" /\ route.read.present)
         => \A i \in 1..Len(options) :
              (/\ options[i].digit = route.lastDigits
               /\ options[i].action_type = "agent"
               /\ options[i].agent_id = "A2")
                 => /\ decision = ConnectAgent("A2")
                    /\ route.written.selectedAgent = "A2"
                    /\ ~route.written.ivrContext.present

\* C5 (amended): when the first option whose digit is the submitted string
\* has action agent, the answer depends on that option alone: if its agent is
\* one of the tenant's active agents the call connects to it and the session
\* written is the session read with that agent selected and ivrContext
\* cleared; otherwise the call is rejected and no session is written. The
\* attempts counter of the session read plays no part.
C5_DigitSelectsAgent ==
    LET options == route.read.clientConfig.ivrMenu.ivr_options
        agents == route.read.clientConfig.agents
    IN (route.lastOp = "digit" /\ route.read.present)
         => \A i \in 1..Len(options) :
              (/\ options[i].digit = route.lastDigits
               /\ \A j \in 1..(i - 1) : options[j].digit # route.lastDigits
               /\ options[i].action_type = "agent")
                 => IF \E k \in 1..Len(agents) : agents[k] = options[i].agent_id
                      THEN /\ decision = ConnectAgent(options[i].agent_id)
                           /\ route.wrote
                           /\ route.written =
                                [route.read EXCEPT
                                    !.selectedAgent = options[i].agent_id,
                                    !.ivrContext = NoIvrContext]
                           /\ memSession = route.written
                      ELSE /\ decision = Reject
                           /\ ~route.wrote

\* C5 witness: after an invalid attempt was counted, "2" was submitted and
\* the call connected to A2 with ivrContext cleared.
C5_Witness ==
    /\ route.lastOp = "digit"
    /\ route.lastDigits = "2"
    /\ route.read.ivrContext.attempts >= 1
    /\ decision = ConnectAgent("A2")
    /\ memSession.selectedAgent = "A2"
    /\ ~memSession.ivrContext.present

\* C6: under time_based routing with the general agent A1 (business days
\* 1..5, 09:00-17:00) and the after_hours agent A2, the call connects to A1
\* iff the local weekday is in 1..5 and the local minute of day is within
\* [540, 1020], and to A2 otherwise.
C6_BusinessHoursSelection ==
    (/\ route.lastOp = "voice"
     /\ route.branch = "time_based"
     /\ source.agents = <<"A1", "A2">>)
        => decision =
             ConnectAgent(IF /\ route.day \in 1..5
                             /\ route.minute >= 9 * 60
                             /\ route.minute <= 17 * 60
                            THEN "A1" ELSE "A2")

\* C7: the minutes passed to incrementMinutesUsed are the ceiling of the
\* call's duration in seconds over 60: the least m with 60 * m >= d; 61
\* seconds give 2 and 60 seconds give 1.
C7_CeilingMinutes ==
    closePc = "incrementMinutesUsed"
        => /\ sink.minutes * 60 >= sink.durationSeconds
           /\ (sink.minutes - 1) * 60 < sink.durationSeconds
           /\ sink.durationSeconds = 61 => sink.minutes = 2
           /\ sink.durationSeconds = 60 => sink.minutes = 1

\* C7 witness: incrementMinutesUsed has been called with 2 for a call of 61
\* seconds.
C7_Witness ==
    /\ closePc = "incrementMinutesUsed"
    /\ sink.incrementCalls = 1
    /\ sink.durationSeconds = 61
    /\ sink.minutes = 2

\* C8: a call that connected to the relay with a tenant and an agent attached
\* has, when it is over, had createCallLog called exactly once and
\* incrementMinutesUsed called exactly once.
C8_OneRecordOneIncrement ==
    (/\ sock.state = "closed"
     /\ sock.clientInfo # Null
     /\ sock.agentInfo # Null
     /\ pc = "registered"
     /\ closePc \in {"idle", "done"})
        => /\ sink.createCalls = 1
           /\ sink.incrementCalls = 1

\* C9: when routing has connected the call to an agent and the telephony side
\* has connected with the call's identifier, the speech-side client is set up
\* with that agent's system prompt, voice and language (each where the agent
\* has one).
C9_AgentConfigured ==
    (/\ decision.kind = "agent"
     /\ sock.callSid = CallSid
     /\ gem.state # "none")
        => LET agent == AgentRow(decision.agent) IN
             /\ sock.agentInfo = decision.agent
             /\ agent.system_instruction # Null
                  => gem.setup.systemInstruction = agent.system_instruction
             /\ agent.voice_name # Null
                  => gem.setup.voiceName = agent.voice_name
             /\ agent.language_code # Null
                  => gem.setup.languageCode = agent.language_code

\* C10: a telephony connection whose session lookup found no session, or a
\* session without a selected agent, is accepted but no audio is forwarded:
\* no media frame is handed to the speech-side client and none is sent to
\* the telephony side.
C10_NoAgentNoAudio ==
    (/\ sock.state # "none"
     /\ pc = "registered"
     /\ sock.agentInfo = Null)
        => /\ relayed.toGemini = 0
           /\ relayed.toTwilio = 0

\* C11: once the call has ended (the telephony side sent 'stop' or closed, or
\* the speech side closed), no audio is forwarded in either direction: no
\* media frame is handed to an unclosed speech-side client and none is sent
\* to the telephony side.
C11_NoAudioAfterEnded ==
    ~relayed.late

\* C12: when the speech side closes while the telephony socket is open, the
\* relay tears the call down in that step: the telephony socket is closed and
\* the finalization of the call record has begun.
C12_SpeechCloseTearsDown ==
    [][(GeminiClosed /\ sock.state = "open")
          => (sock'.state = "closed" /\ closePc' # "idle")]_vars

\* C13: whenever the speech-side client of a call is ready, the greeting turn
\* has been armed for it or sent.
C13_GreetingAfterReady ==
    gem.state = "open" => gem.greeting \in {"armed", "sent"}

\* C14: once the telephony socket is closed and no step of the relay is
\* pending (the 'connection' handler has run to its end and no 'close'
\* handler is in flight), the speech-side client is closed.
C14_SpeechClosedAfterTelephonyClose ==
    (/\ sock.state = "closed"
     /\ pc = "registered"
     /\ closePc \in {"idle", "done"}
     /\ gem.state # "none")
        => gem.state = "closed"

\* C15: every media frame sent to the telephony side carries the stream
\* identifier of the 'start' event, never the call identifier and never an
\* empty one.
C15_FramesTaggedWithStreamSid ==
    relayed.tags \subseteq {StreamSid}

C17_RefreshAlwaysCaches ==
    LET last == cache.last IN
      /\ (last.kind # "none" /\ last.found.present
            /\ last.at < last.found.expiresAt)
           => (last.kind = "hit" /\ last.result = last.found.data
               /\ last.queries = 0)
      /\ (last.kind = "fetched" /\ last.found.present)
           => (/\ last.at >= last.found.expiresAt
               /\ last.queries = 1
               /\ cache.entry.present
               /\ cache.entry.data = last.result
               /\ cache.entry.expiresAt = last.returnedAt + CACHE_TTL)

\* C17: a resolve made before the entry's expiry returns the cached snapshot,
\* leaves the entry as it is and sends no query. A resolve made at or after
\* the expiry is never answered from the cache: it discards the entry and
\* queries the database; when the queries return a configuration it is
\* returned and cached with an expiry CACHE_TTL after that instant, and when
\* they return none, null is returned and nothing is cached.
C17_CacheExpiry ==
    LET last == cache.last
        expired == last.found.present /\ last.at >= last.found.expiresAt
    IN /\ (last.kind # "none" /\ last.found.present
             /\ last.at < last.found.expiresAt)
            => (/\ last.kind = "hit"
                /\ last.result = last.found.data
                /\ last.queries = 0
                /\ cache.entry = last.found)
       /\ (last.kind # "none" /\ expired)
            => (last.kind \in {"querying", "fetched"} /\ last.queries = 1)
       /\ (last.kind = "querying" /\ expired) => ~cache.entry.present
       /\ (last.kind = "fetched" /\ expired /\ last.result.found)
            => (/\ cache.entry.present
                /\ cache.entry.data = last.result
                /\ cache.entry.expiresAt = last.returnedAt + CACHE_TTL)
       /\ (last.kind = "fetched" /\ expired /\ ~last.result.found)
            => ~cache.entry.present

\* A resolve made at the very instant of the entry's expiry has discarded the
\* entry, queried the database and cached a configuration that differs from
\* the discarded snapshot.
C17_Witness ==
    /\ cache.last.kind = "fetched"
    /\ cache.last.found.present
    /\ cache.last.at = cache.last.found.expiresAt
    /\ cache.entry.present
    /\ cache.entry.data # cache.last.found.data
    /\ cache.entry.expiresAt = cache.last.returnedAt + CACHE_TTL

\* C18: when no configuration is found for the called number, the voice
\* webhook answers with a rejection and the call goes no further: no session
\* is written to the database or to the in-memory store, the answer starts
\* no media stream and names no agent, and no telephony socket connects.
C18_UnconfiguredRejected ==
    (route.lastOp # "none" /\ ~source.found)
        => /\ decision = Reject
           /\ ~route.wrote
           /\ dbSession = NoSession
           /\ memSession = NoSession
           /\ ~decision.stream
           /\ decision.agent = Null
           /\ sock.state = "none"
           /\ gem.state = "none"

\* The voice webhook has answered a call to a number without configuration.
C18_Witness ==
    /\ ~source.found
    /\ route.lastOp = "voice"
    /\ route.branch = "unconfigured"
    /\ decision.kind = "reject"

\* C19: after the sessions a call's webhooks have put, a lookup (database
\* first, in-memory store second) returns the session put last, whether the
\* database answers the lookup or not.
C19_LookupReturnsLastPut ==
    route.wrote =>
        \A dbUp \in BOOLEAN :
            LookupSession(dbSession, memSession, dbUp) = route.written

\* C20: no error raised while a call is routed terminates the process: it is
\* up after every webhook request.
C20_ProcessStaysUp ==
    route.processUp

\* C21: under the ivr strategy, for a number with no bound agent: with a menu
\* in the resolved configuration the voice webhook answers with the prompt
\* and puts a session whose ivrContext is that menu's id with attempts 0 and
\* that selects no agent; without a menu it connects the tenant's first
\* configured agent, the one created first.
C21_IvrPromptOrFirstAgent ==
    LET config == ClientConfig(source) IN
      (/\ route.lastOp = "voice"
       /\ source.found
       /\ source.agent_id = Null
       /\ config.routingStrategy = "single_number_ivr")
          => IF config.ivrMenu.id # Null
               THEN /\ decision.kind = "ivrPrompt"
                    /\ route.wrote
                    /\ route.written
                         = Session(config, Null,
                                   IvrContext(config.ivrMenu.id, 0))
                    /\ \A dbUp \in BOOLEAN :
                         LookupSession(dbSession, memSession, dbUp)
                             = route.written
               ELSE Len(source.agents) > 0
                      => decision = ConnectAgent(OldestAgent(source.agents))

\* C26: for a number with no bound agent whose tenant's routing strategy is
\* none of the dispatched ones, the voice webhook connects the tenant's first
\* configured agent: the one created first, whatever order the rows were
\* returned in.
C26_DefaultIsOldestAgent ==
    (/\ route.lastOp = "voice"
     /\ source.found
     /\ source.agent_id = Null
     /\ source.routing_strategy \in {"direct", "unknown"}
     /\ Len(source.agents) > 0)
        => /\ route.branch = "default"
           /\ decision = ConnectAgent(OldestAgent(source.agents))

\* C22: for a number that is not the tenant's primary number, or a tenant
\* whose routing_strategy is not the ivr one, the resolved configuration has
\* no menu, no webhook ever answers with the prompt, and no session with an
\* ivrContext is put.
C22_MenuOnlyOnPrimaryIvr ==
    (source.found
       /\ (~source.is_primary \/ source.routing_strategy # "single_number_ivr"))
        => /\ ClientConfig(source).ivrMenu = NoMenu
           /\ decision.kind # "ivrPrompt"
           /\ ~memSession.ivrContext.present
           /\ ~dbSession.ivrContext.present

\* The voice webhook has answered a call to a number that is not primary, of
\* a tenant with the ivr strategy, an active menu and no bound agent, by
\* connecting an agent.
C22_Witness ==
    /\ route.lastOp = "voice"
    /\ source.found
    /\ ~source.is_primary
    /\ source.agent_id = Null
    /\ source.routing_strategy = "single_number_ivr"
    /\ source.menu # NoMenu
    /\ route.branch = "ivr"
    /\ decision.kind = "agent"

\* C23: under time_based routing, whenever the tenant has an agent of class
\* general or after_hours, the voice webhook connects an agent of one of
\* these two classes: the general one where there is no after_hours agent,
\* the after_hours one where there is no general agent.
C23_GeneralOrAfterHoursSelected ==
    LET classOf(i) == AgentRow(source.agents[i]).agent_type
        ofClass(c) == {i \in 1..Len(source.agents) : classOf(i) = c}
    IN (/\ route.lastOp = "voice"
        /\ route.branch = "time_based"
        /\ ofClass("general") \cup ofClass("after_hours") # {})
           => /\ decision.kind = "agent"
              /\ AgentRow(decision.agent).agent_type
                   \in {"general", "after_hours"}
              /\ ofClass("general") = {}
                   => AgentRow(decision.agent).agent_type = "after_hours"
              /\ ofClass("after_hours") = {}
                   => AgentRow(decision.agent).agent_type = "general"

\* C24 as stated: under external_integration routing a first integration of
\* kind sip is answered with a transfer to its SIP address, with no session
\* written and no agent, and one of kind forwarding with its configured
\* agent and a session written for that agent.
C24_KindAloneDecides ==
    (/\ route.lastOp = "voice"
     /\ route.branch = "external_integration"
     /\ Len(source.integrations) > 0)
        => LET first == source.integrations[1] IN
             /\ first.integration_type = "sip"
                  => (/\ decision.kind = "transfer"
                      /\ decision.to = first.sip_uri
                      /\ ~route.wrote)
             /\ first.integration_type = "forwarding"
                  => (/\ decision.kind = "agent"
                      /\ decision.agent = first.agent_id
                      /\ route.wrote)

\* C24: under external_integration routing the first active integration
\* decides and the ones after it play no part. Kind sip with a SIP address is
\* answered with a transfer to it, and without one with a rejection; in both
\* cases no session is written, no agent is selected and no stream is
\* started. Kind forwarding whose configured agent is one of the tenant's
\* active agents connects that agent and puts a session selecting it; with
\* no configured agent, or one that is not active, the call is rejected and
\* no session is written.
C24_FirstIntegrationDecides ==
    (/\ route.lastOp = "voice"
     /\ route.branch = "external_integration"
     /\ Len(source.integrations) > 0)
        => LET first == source.integrations[1]
               active == \E i \in 1..Len(source.agents) :
                             source.agents[i] = first.agent_id
           IN /\ first.integration_type = "sip"
                   => (/\ decision
                            = IF first.sip_uri = Null THEN Reject
                              ELSE Decision("transfer", Null, FALSE, FALSE,
                                            first.sip_uri)
                       /\ ~route.wrote
                       /\ dbSession = NoSession
                       /\ memSession = NoSession)
              /\ (first.integration_type = "forwarding" /\ active)
                   => (/\ decision = ConnectAgent(first.agent_id)
                       /\ route.wrote
                       /\ route.written
                            = Session(ClientConfig(source), first.agent_id,
                                      NoIvrContext)
                       /\ memSession = route.written)
              /\ (first.integration_type = "forwarding" /\ ~active)
                   => (/\ decision = Reject
                       /\ ~route.wrote
                       /\ dbSession = NoSession
                       /\ memSession = NoSession)

\* A tenant whose first integration forwards to the active agent A2 and whose
\* second one is a SIP trunk has been answered by connecting A2.
C24_Witness ==
    /\ route.lastOp = "voice"
    /\ route.branch = "external_integration"
    /\ Len(source.integrations) = 2
    /\ source.integrations[1].integration_type = "forwarding"
    /\ source.integrations[2].integration_type = "sip"
    /\ decision = ConnectAgent("A2")

\* C25 as stated: under an extension integration a supplied extension that
\* is in the extension table connects the agent it maps to, and one that is
\* not (or no extension) is rejected with no session written and no stream.
C25_MappedExtensionConnects ==
    (/\ route.lastOp = "voice"
     /\ route.branch = "external_integration"
     /\ Len(source.integrations) > 0
     /\ source.integrations[1].integration_type = "extension")
        => /\ route.extension = "101" => decision = ConnectAgent("A1")
           /\ route.extension = "103" => decision = ConnectAgent("A3")
           /\ route.extension \in {Null, "999"}
                => (decision = Reject /\ ~route.wrote)

\* C25: under an extension integration, a supplied extension whose entry of
\* the extension table is one of the tenant's active agents connects exactly
\* that agent and puts a session selecting it. A missing extension, one that
\* is not in the table, and one whose agent is not active are rejected: no
\* session is written to either store, no stream is started, and the first
\* agent is not used instead.
C25_ExtensionSelectsOrRejects ==
    (/\ route.lastOp = "voice"
     /\ route.branch = "external_integration"
     /\ Len(source.integrations) > 0
     /\ source.integrations[1].integration_type = "extension")
        => LET active(id) == \E i \in 1..Len(source.agents) :
                                 source.agents[i] = id
               mapped == CASE route.extension = "101" -> "A1"
                           [] route.extension = "103" -> "A3"
                           [] OTHER -> Null
           IN IF mapped # Null /\ active(mapped)
                THEN /\ decision = ConnectAgent(mapped)
                     /\ route.wrote
                     /\ route.written = Session(ClientConfig(source), mapped,
                                                NoIvrContext)
                     /\ memSession = route.written
                ELSE /\ decision = Reject
                     /\ ~decision.stream
                     /\ ~route.wrote
                     /\ dbSession = NoSession
                     /\ memSession = NoSession

\* A call that supplied extension 999, which the table does not hold, to a
\* tenant with active agents has been rejected with nothing written.
C25_Witness ==
    /\ route.lastOp = "voice"
    /\ route.branch = "external_integration"
    /\ source.integrations = <<Integration("extension", Null, Null)>>
    /\ route.extension = "999"
    /\ source.agents = <<"A1", "A2">>
    /\ decision = Reject
    /\ memSession = NoSession

\* C27: for a tenant with no active agent and a number with no bound agent,
\* every branch that would fall back to an agent (the default branch, the ivr
\* branch without a menu, the external_integration branch without an
\* integration, the time_based branch, the IVR timeout and the IVR fallback
\* after the last invalid digit) answers with a rejection; no webhook starts
\* a stream and no session selecting an agent is written.
C27_NoAgentRejected ==
    LET menu == route.read.clientConfig.ivrMenu
        noMatch == \A i \in 1..Len(menu.ivr_options) :
                       menu.ivr_options[i].digit # route.lastDigits
        terminal ==
            \/ /\ route.lastOp = "voice"
               /\ \/ route.branch \in {"default", "time_based"}
                  \/ /\ route.branch = "ivr"
                     /\ ClientConfig(source).ivrMenu = NoMenu
                  \/ /\ route.branch = "external_integration"
                     /\ Len(source.integrations) = 0
            \/ route.lastOp = "timeout"
            \/ /\ route.lastOp = "digit"
               /\ route.read.present
               /\ noMatch
               /\ decision.kind # "ivrPrompt"
    IN (/\ route.lastOp # "none"
        /\ source.found
        /\ source.agent_id = Null
        /\ Len(source.agents) = 0)
           => /\ ~decision.stream
              /\ memSession.selectedAgent = Null
              /\ dbSession.selectedAgent = Null
              /\ terminal => decision = Reject

\* C28: the session a lookup returns, with the database up or down, never
\* has both a selected agent and an ivrContext, and every session a webhook
\* writes with a selected agent is written with the ivrContext cleared.
C28_AgentClearsIvrContext ==
    /\ \A dbUp \in BOOLEAN :
         LET callSession == LookupSession(dbSession, memSession, dbUp) IN
           ~(callSession.selectedAgent # Null
               /\ callSession.ivrContext.present)
    /\ (route.wrote /\ route.written.selectedAgent # Null)
          => ~route.written.ivrContext.present

\* The IVR timeout has read a session with a pending ivrContext and written
\* one that selects an agent.
C28_Witness ==
    /\ route.lastOp = "timeout"
    /\ route.read.ivrContext.present
    /\ route.wrote
    /\ route.written.selectedAgent # Null
    /\ memSession = route.written

\* C29 as stated: a digit submission whose first matching option has action
\* transfer is answered with a transfer, and one whose first matching option
\* has action voicemail with the voicemail recording.
C29_TransferAlwaysDials ==
    LET options == route.read.clientConfig.ivrMenu.ivr_options
        hits == {i \in 1..Len(options) : options[i].digit = route.lastDigits}
        action == options[CHOOSE i \in hits : \A j \in hits : i <= j]
                      .action_type
    IN (route.lastOp = "digit" /\ route.read.present /\ hits # {})
          => /\ action = "transfer" => decision.kind = "transfer"
             /\ action = "voicemail" => decision.kind = "voicemail"

\* C29: a digit submission whose first matching option has action transfer
\* is answered with a transfer to the option's phone number, or with a
\* rejection when the option has no phone number, and one whose first
\* matching option has action voicemail with the voicemail recording; in
\* each case the step selects no agent, starts no stream and leaves the
\* session in the database and in the in-memory store as it was.
C29_TransferVoicemailFrame ==
    [][LET options == route'.read.clientConfig.ivrMenu.ivr_options
           hits == {i \in 1..Len(options) :
                        options[i].digit = route'.lastDigits}
           option == options[CHOOSE i \in hits : \A j \in hits : i <= j]
       IN (/\ route'.digits = route.digits + 1
           /\ route'.read.present
           /\ hits # {}
           /\ option.action_type \in {"transfer", "voicemail"})
             => /\ decision'
                     = IF option.action_type = "voicemail"
                         THEN Decision("voicemail", Null, FALSE, FALSE, Null)
                       ELSE IF option.phone_number = Null THEN Reject
                       ELSE Decision("transfer", Null, FALSE, FALSE,
                                     option.phone_number)
                /\ decision'.agent = Null
                /\ ~decision'.stream
                /\ ~route'.wrote
                /\ dbSession' = dbSession
                /\ memSession' = memSession
                /\ sock' = sock]_vars

\* Digit 3 of the first menu has been answered with a transfer to the
\* option's number, and the stored session still holds the IVR progress and
\* no agent.
C29_Witness ==
    /\ route.lastOp = "digit"
    /\ route.lastDigits = "3"
    /\ decision = Decision("transfer", Null, FALSE, FALSE, "+15550100")
    /\ memSession.present
    /\ memSession.ivrContext.present
    /\ memSession.selectedAgent = Null

\* C30: while a call record is being finalized its status is `completed`
\* when the telephony side ended the call, and `failed` when a socket error
\* or a drop of the speech side did.
C30_FinalStatusByCause ==
    sink.cause # "none"
        => sink.status = IF sink.cause = "hangup" THEN "completed"
                         ELSE "failed"

\* C31: a call whose createCallLog failed (no call record id) still has its
\* speech-side content handled and every audio part sent while the socket is
\* open; its 'close' closes the speech-side client at once; a close handler
\* that awaited incrementMinutesUsed closes the client whatever the sink
\* answered; and the process stays up.
C31_SinkFailureIsolated ==
    [][ /\ route.processUp'
        /\ ( /\ pc = "registered" /\ sock.callLogId = Null
             /\ relayed'.content = relayed.content + 1 )
           => /\ relayed'.frame.handled
              /\ sock.state = "open"
                   => relayed'.frame.sent = SentParts(relayed'.frame.parts)
        /\ ( /\ pc = "registered" /\ sock.callLogId = Null
             /\ sock.geminiLive
             /\ sock.state = "open" /\ sock'.state = "closed" )
           => gem'.state = "closed" /\ closePc' = "done"
        /\ ( /\ closePc = "incrementMinutesUsed" /\ closePc' = "done"
             /\ sock.geminiLive )
           => gem'.state = "closed" ]_vars

\* A call without a call record relayed audio in both directions and its
\* speech-side client was closed by the 'close' handler.
C31_Witness ==
    /\ sock.agentInfo # Null
    /\ sock.callLogId = Null
    /\ sink.createCalls = 1
    /\ relayed.toGemini > 0
    /\ relayed.toTwilio > 0
    /\ closePc = "done"
    /\ gem.state = "closed"
    /\ route.processUp

\* C32 as stated, speech-to-telephony direction: a conversion failure on one
\* audio part drops only that part, so a handled frame on an open telephony
\* socket sends one media frame for each of its well-formed audio parts.
C32_OnlyFailingFrameDropped ==
    (relayed.frame.handled /\ relayed.frame.open)
        => relayed.frame.sent = AudioParts(relayed.frame.parts)

\* C33: a telephony media frame is handed to the speech-side client only
\* once the relay has handled the telephony `start` event and the speech-side
\* client has reached ready.
C33_ForwardOnlyWhenConnected ==
    [][ relayed'.toGemini > relayed.toGemini
          => /\ sock.twilioStreamSid = StreamSid
             /\ gem.state = "open" ]_vars

\* C34: the media frames handed to the speech-side client are in arrival
\* order, the media frames sent to the telephony side are in the order of
\* the content frames and, within one content frame, of its parts; every
\* forwarded frame is recorded once.
C34_ForwardedInArrivalOrder ==
    /\ Len(order.toGemini) = relayed.toGemini
    /\ Len(order.toTwilio) = relayed.toTwilio
    /\ \A i, j \in DOMAIN order.toGemini :
          i < j => order.toGemini[i] < order.toGemini[j]
    /\ \A i, j \in DOMAIN order.toTwilio :
          i < j => \/ order.toTwilio[i][1] < order.toTwilio[j][1]
                   \/ /\ order.toTwilio[i][1] = order.toTwilio[j][1]
                      /\ order.toTwilio[i][2] < order.toTwilio[j][2]

\* Two media frames were forwarded to the speech side and the audio parts of
\* two content frames to the telephony side.
C34_Witness ==
    /\ order.toGemini = <<1, 2>>
    /\ Len(order.toTwilio) >= 3
    /\ order.toTwilio[1][1] = 1
    /\ order.toTwilio[Len(order.toTwilio)][1] = 2

C36_SnapshotDecides ==
    /\ memSession.present => memSession.clientConfig = route.snapshot
    /\ dbSession.present => dbSession.clientConfig = route.snapshot
    /\ (route.lastOp \in {"digit", "timeout"} /\ route.read.present)
          => route.read.clientConfig = route.snapshot
    /\ route.lastOp = "digit"
          => decision = SelectDigits(route.read, route.lastDigits).decision
    /\ sock.clientInfo # Null => sock.clientInfo = route.snapshot.clientId
    /\ sock.agentInfo # Null
          => \E i \in DOMAIN route.snapshot.agents :
                route.snapshot.agents[i] = sock.agentInfo

\* The tenant's rows changed after routing; a digit then selected an agent of
\* the snapshot and the relay attached that agent.
C36_Witness ==
    /\ ClientConfig(source) # route.snapshot
    /\ route.lastOp = "digit"
    /\ route.read.present
    /\ decision.kind = "agent"
    /\ sock.agentInfo = decision.agent

\* C37: once the retention window of a call's session has passed and the
\* cleanup of expired sessions has run, a lookup of the call finds no
\* session.
C37_ExpiredSessionEvicted ==
    retention.cleaned
        => \A dbUp \in BOOLEAN :
              ~LookupSession(dbSession, memSession, dbUp).present

\* C38 as stated: after a resolve that returned null the cache holds what it
\* held when the resolve began.
C38_NotFoundLeavesCacheUnchanged ==
    (cache.last.kind = "fetched" /\ ~cache.last.result.found)
        => cache.entry = cache.last.found

\* C38: a resolve that returns null has queried the database and leaves no
\* entry for the number in the cache (an expired entry it found is
\* discarded, a fresh one would have been served); no entry and no hit ever
\* carries null; and the resolve that follows one that returned null queries
\* the database.
C38_NotFoundNeverCached ==
    /\ [](/\ (cache.last.kind = "fetched" /\ ~cache.last.result.found)
              => (/\ ~cache.entry.present
                  /\ cache.last.queries = 1
                  /\ cache.last.found.present
                        => cache.last.found.expiresAt <= cache.last.at)
          /\ cache.entry.present => cache.entry.data.found
          /\ cache.last.kind = "hit" => cache.last.result.found)
    /\ [][ ( /\ cache.last.kind = "fetched" /\ ~cache.last.result.found
             /\ cache'.last # cache.last )
           => cache'.last.kind = "querying" ]_vars

\* A resolve that found an expired entry returned null: the entry is gone
\* and nothing was cached.
C38_Witness ==
    /\ cache.last.kind = "fetched"
    /\ ~cache.last.result.found
    /\ cache.last.found.present
    /\ ~cache.entry.present

\* C39: the flags of the configuration the voice webhook resolved equal the
\* tenant record's flags, and a direct-number call of a tenant whose call
\* recording is disabled carries no recording instruction.
C39_FlagsFollowTenantRecord ==
    (route.lastOp = "voice" /\ route.snapshot.found) =>
        /\ route.snapshot.recordingEnabled = source.call_recording_enabled
        /\ route.snapshot.transcriptionEnabled = source.transcription_enabled
        /\ (route.branch = "direct_number" /\ ~source.call_recording_enabled)
              => ~decision.record

====
